---- MODULE Spec2Model ----
(***************************************************************************)
(* Model of pkg/controller/listers.go of haproxy-ingress: the seven shared *)
(* informers, their event handlers, and RunAsync with its cache-sync       *)
(* barrier.                                                                *)
(*                                                                         *)
(* Every call a handler makes on its collaborators (l.events, l.recorder,  *)
(* l.logger, runtime.HandleError) is appended, in call order, to the one   *)
(* sequence trace, tagged with the raw event it was made for.              *)
(***************************************************************************)
EXTENDS Naturals, Sequences, FiniteSets, TLC

\* Bound: the number of raw events the informers deliver in one behaviour.
MaxEvents == 2

(***************************************************************************)
(* The resource kinds, in the order RunAsync starts and waits for them.    *)
(***************************************************************************)
KindSeq ==
  <<"Ingress", "Endpoints", "Service", "Secret", "ConfigMap", "Pod", "Node">>

Kinds == {KindSeq[i] : i \in DOMAIN KindSeq}

(***************************************************************************)
(* Object snapshots.  The field type is the Go dynamic type of the value   *)
(* an interface{} parameter holds; the other fields are the ones the       *)
(* handlers read or that reflect.DeepEqual compares.                       *)
(***************************************************************************)
Ingresses ==
  [type : {"Ingress"}, Namespace : {"n1"}, Name : {"a", "b"},
   class : {"haproxy", "nginx"}]

Secrets ==
  { [type |-> "Secret", Namespace |-> "n1", Name |-> "a", Data |-> "d1"],
    [type |-> "Secret", Namespace |-> "n1", Name |-> "a", Data |-> "d2"],
    [type |-> "Secret", Namespace |-> "n2", Name |-> "b", Data |-> "d1"] }

EndpointsObjs ==
  { [type |-> "Endpoints", Subsets |-> "s1", Labels |-> "l1"],
    [type |-> "Endpoints", Subsets |-> "s1", Labels |-> "l2"],
    [type |-> "Endpoints", Subsets |-> "s2", Labels |-> "l1"] }

ConfigMaps ==
  [type : {"ConfigMap"}, Name : {"cm"}, Data : {"d1", "d2"}]

\* Pod.DeletionTimestamp is a *metav1.Time: NilPtr, or the address of a Time.
\* TimeAt gives the Time stored at each address: two addresses hold equal
\* times, a third holds another time.
NilPtr == "nil"

TimePtrs == {"p1", "p2", "p3"}

TimeAt(p) == IF p = "p3" THEN "t2" ELSE "t1"

Pods ==
  { [type |-> "Pod", Labels |-> "l1", DeletionTimestamp |-> NilPtr],
    [type |-> "Pod", Labels |-> "l2", DeletionTimestamp |-> NilPtr],
    [type |-> "Pod", Labels |-> "l1", DeletionTimestamp |-> "p1"],
    [type |-> "Pod", Labels |-> "l2", DeletionTimestamp |-> "p2"],
    [type |-> "Pod", Labels |-> "l1", DeletionTimestamp |-> "p3"] }

Services == { [type |-> "Service", Name |-> "svc"] }

Nodes == { [type |-> "Node", Name |-> "node"] }

ObjectsOf(k) ==
  CASE k = "Ingress"   -> Ingresses
    [] k = "Endpoints" -> EndpointsObjs
    [] k = "Service"   -> Services
    [] k = "Secret"    -> Secrets
    [] k = "ConfigMap" -> ConfigMaps
    [] k = "Pod"       -> Pods
    [] k = "Node"      -> Nodes

\* cache.DeletedFinalStateUnknown: the tombstone an informer hands to
\* DeleteFunc when it missed the delete and only knows the last state.
Tombstone(o) == [type |-> "DeletedFinalStateUnknown", Obj |-> o]

\* A payload that is neither an object of a watched kind nor a tombstone.
Garbage == [type |-> "string"]

\* What a tombstone handed to the DeleteFunc of kind k may wrap.
TombstoneObjs(k) ==
  ObjectsOf(k) \cup
    { IF k = "Secret"
        THEN [type |-> "Ingress", Namespace |-> "n1", Name |-> "a",
              class |-> "haproxy"]
        ELSE [type |-> "Secret", Namespace |-> "n1", Name |-> "a",
              Data |-> "d1"] }

\* The payloads of a Deleted event of kind k.
DeletedPayloads(k) ==
  IF k \in {"Ingress", "Secret"}
    THEN ObjectsOf(k) \cup {Tombstone(o) : o \in TombstoneObjs(k)}
           \cup {Garbage}
    ELSE ObjectsOf(k)

\* The raw events the informer of kind k delivers.
RawEvents(k) ==
  {[op |-> "Added", obj |-> o] : o \in ObjectsOf(k)}
    \cup {[op |-> "Updated", old |-> o, cur |-> c] :
            o \in ObjectsOf(k), c \in ObjectsOf(k)}
    \cup {[op |-> "Deleted", obj |-> p] : p \in DeletedPayloads(k)}

NoEvent == [op |-> "None"]

(***************************************************************************)
(* The collaborators' calls.                                               *)
(***************************************************************************)
\* ListerEvents.IsValidClass: a pure predicate of the Ingress, owned by the
\* sink; here the ingress class decides.
IsValidClass(ing) == ing.class = "haproxy"

\* reflect.DeepEqual on two object snapshots.
DeepEqual(a, b) == a = b

Notify == [call |-> "Notify"]

UpdateSecret(key) == [call |-> "UpdateSecret", key |-> key]

DeleteSecret(key) == [call |-> "DeleteSecret", key |-> key]

AddConfigMap(cm) == [call |-> "AddConfigMap", cm |-> cm]

UpdateConfigMap(cm) == [call |-> "UpdateConfigMap", cm |-> cm]

\* l.recorder.Eventf(ing, api.EventTypeNormal, reason, "Ingress ns/name")
Eventf(ing, reason) ==
  [call |-> "Eventf", eventtype |-> "Normal", reason |-> reason,
   message |-> "Ingress " \o ing.Namespace \o "/" \o ing.Name]

\* l.logger.Error(...)
LogError(what) == [call |-> "Error", message |-> what]

\* l.logger.Info(...)
LogInfo(what) == [call |-> "Info", message |-> what]

\* runtime.HandleError(...)
HandleError(what) == [call |-> "HandleError", message |-> what]

\* fmt.Sprintf("%v/%v", sec.Namespace, sec.Name)
SecretKey(sec) == sec.Namespace \o "/" \o sec.Name

\* What a handler did: the calls it made, in order, and whether it panicked
\* (a type assertion without the comma-ok form on a value of another type).
Returned(calls) == [calls |-> calls, panic |-> FALSE]

Panicked(calls) == [calls |-> calls, panic |-> TRUE]

(***************************************************************************)
(* The event handlers, one operator per registered callback.               *)
(***************************************************************************)
\* A faulty AddFunc: it signals the sink a second time after the audit.
IngressAddFunc_NotifyTwice(obj) ==
  IF obj.type # "Ingress" THEN Panicked(<<>>)
  ELSE IF IsValidClass(obj)
    THEN Returned(<<Notify, Eventf(obj, "CREATE"), Notify>>)
    ELSE Returned(<<>>)

\* A faulty AddFunc: it does not ask IsValidClass.
IngressAddFunc_NoClassCheck(obj) ==
  IF obj.type # "Ingress" THEN Panicked(<<>>)
  ELSE Returned(<<Notify, Eventf(obj, "CREATE")>>)

\* createIngressLister, AddFunc
IngressAddFunc(obj) ==
  IF obj.type # "Ingress" THEN Panicked(<<>>)
  ELSE IF IsValidClass(obj)
    THEN Returned(<<Notify, Eventf(obj, "CREATE")>>)
    ELSE Returned(<<>>)

\* A faulty UpdateFunc: the reflect.DeepEqual guard is missing.
IngressUpdateFunc_NoEqualGuard(old, cur) ==
  IF old.type # "Ingress" \/ cur.type # "Ingress" THEN Panicked(<<>>)
  ELSE
    LET oldValid == IsValidClass(old)
        curValid == IsValidClass(cur)
    IN  IF ~oldValid /\ ~curValid THEN Returned(<<>>)
        ELSE IF ~oldValid /\ curValid
          THEN Returned(<<Eventf(cur, "CREATE"), Notify>>)
        ELSE IF oldValid /\ ~curValid
          THEN Returned(<<Eventf(cur, "DELETE"), Notify>>)
        ELSE Returned(<<Eventf(cur, "UPDATE"), Notify>>)

\* createIngressLister, UpdateFunc
IngressUpdateFunc(old, cur) ==
  IF DeepEqual(old, cur) THEN Returned(<<>>)
  ELSE IF old.type # "Ingress" \/ cur.type # "Ingress" THEN Panicked(<<>>)
  ELSE
    LET oldValid == IsValidClass(old)
        curValid == IsValidClass(cur)
    IN  IF ~oldValid /\ ~curValid THEN Returned(<<>>)
        ELSE IF ~oldValid /\ curValid
          THEN Returned(<<Eventf(cur, "CREATE"), Notify>>)
        ELSE IF oldValid /\ ~curValid
          THEN Returned(<<Eventf(cur, "DELETE"), Notify>>)
        ELSE Returned(<<Eventf(cur, "UPDATE"), Notify>>)

\* createIngressLister, DeleteFunc, from the IsValidClass test on: ing is
\* the Ingress the payload gave.
IngressDeleted(ing) ==
  IF ~IsValidClass(ing) THEN Returned(<<>>)
  ELSE Returned(<<Eventf(ing, "DELETE"), Notify>>)

\* A faulty DeleteFunc: a tombstone is not unwrapped, it is logged and
\* dropped like any other payload that is not an Ingress.
IngressDeleteFunc_NoTombstone(obj) ==
  IF obj.type = "Ingress" THEN IngressDeleted(obj)
  ELSE Returned(<<LogError("couldn't get object from tombstone")>>)

\* createIngressLister, DeleteFunc
IngressDeleteFunc(obj) ==
  IF obj.type = "Ingress" THEN IngressDeleted(obj)
  ELSE IF obj.type # "DeletedFinalStateUnknown"
    THEN Returned(<<LogError("couldn't get object from tombstone")>>)
  ELSE IF obj.Obj.type # "Ingress"
    THEN Returned(<<LogError("Tombstone contained object that is not an Ingress")>>)
  ELSE IngressDeleted(obj.Obj)

\* createEndpointLister, AddFunc
EndpointAddFunc(obj) == Returned(<<Notify>>)

\* A faulty UpdateFunc: the whole objects are compared, not their subsets.
EndpointUpdateFunc_WholeObject(old, cur) ==
  IF old.type # "Endpoints" \/ cur.type # "Endpoints" THEN Panicked(<<>>)
  ELSE IF ~DeepEqual(old, cur) THEN Returned(<<Notify>>)
  ELSE Returned(<<>>)

\* createEndpointLister, UpdateFunc
EndpointUpdateFunc(old, cur) ==
  IF old.type # "Endpoints" \/ cur.type # "Endpoints" THEN Panicked(<<>>)
  ELSE IF ~DeepEqual(old.Subsets, cur.Subsets) THEN Returned(<<Notify>>)
  ELSE Returned(<<>>)

\* createEndpointLister, DeleteFunc
EndpointDeleteFunc(obj) == Returned(<<Notify>>)

\* A faulty AddFunc: it calls nothing.
SecretAddFunc_Silent(obj) == Returned(<<>>)

\* createSecretLister, AddFunc
SecretAddFunc(obj) == Returned(<<Notify>>)

\* A faulty UpdateFunc: the key is taken from old.
SecretUpdateFunc_KeyOfOld(old, cur) ==
  IF ~DeepEqual(old, cur)
    THEN IF old.type # "Secret" THEN Panicked(<<>>)
         ELSE Returned(<<UpdateSecret(SecretKey(old))>>)
    ELSE Returned(<<>>)

\* createSecretLister, UpdateFunc
SecretUpdateFunc(old, cur) ==
  IF ~DeepEqual(old, cur)
    THEN IF cur.type # "Secret" THEN Panicked(<<>>)
         ELSE Returned(<<UpdateSecret(SecretKey(cur))>>)
    ELSE Returned(<<>>)

\* A faulty DeleteFunc: it does not look into a tombstone.
SecretDeleteFunc_NoTombstone(obj) ==
  IF obj.type = "Secret" THEN Returned(<<DeleteSecret(SecretKey(obj))>>)
  ELSE Returned(<<LogError("couldn't get object from tombstone")>>)

\* A faulty DeleteFunc: obj.(*api.Secret) without the comma-ok form.
SecretDeleteFunc_BareAssertion(obj) ==
  IF obj.type # "Secret" THEN Panicked(<<>>)
  ELSE Returned(<<DeleteSecret(SecretKey(obj))>>)

\* createSecretLister, DeleteFunc
SecretDeleteFunc(obj) ==
  IF obj.type = "Secret" THEN Returned(<<DeleteSecret(SecretKey(obj))>>)
  ELSE IF obj.type # "DeletedFinalStateUnknown"
    THEN Returned(<<LogError("couldn't get object from tombstone")>>)
  ELSE IF obj.Obj.type # "Secret"
    THEN Returned(<<LogError("Tombstone contained object that is not a Secret")>>)
  ELSE Returned(<<DeleteSecret(SecretKey(obj.Obj))>>)

\* createConfigMapLister, AddFunc
ConfigMapAddFunc(obj) ==
  IF obj.type # "ConfigMap" THEN Panicked(<<>>)
  ELSE Returned(<<AddConfigMap(obj)>>)

\* A faulty UpdateFunc: it passes old on.
ConfigMapUpdateFunc_PassesOld(old, cur) ==
  IF ~DeepEqual(old, cur)
    THEN IF old.type # "ConfigMap" THEN Panicked(<<>>)
         ELSE Returned(<<UpdateConfigMap(old)>>)
    ELSE Returned(<<>>)

\* createConfigMapLister, UpdateFunc
ConfigMapUpdateFunc(old, cur) ==
  IF ~DeepEqual(old, cur)
    THEN IF cur.type # "ConfigMap" THEN Panicked(<<>>)
         ELSE Returned(<<UpdateConfigMap(cur)>>)
    ELSE Returned(<<>>)

\* createPodLister, UpdateFunc: != on two *metav1.Time compares addresses.
PodUpdateFunc(old, cur) ==
  IF old.type # "Pod" \/ cur.type # "Pod" THEN Panicked(<<>>)
  ELSE IF old.DeletionTimestamp # cur.DeletionTimestamp
    THEN Returned(<<Notify>>)
  ELSE Returned(<<>>)

\* createPodLister, DeleteFunc
PodDeleteFunc(obj) == Returned(<<Notify>>)

\* Faulty registrations: createServiceLister registers the handlers of
\* createEndpointLister.
Handler_ServiceNotifies(k, ev) ==
  CASE k = "Ingress" /\ ev.op = "Added"     -> IngressAddFunc(ev.obj)
    [] k = "Ingress" /\ ev.op = "Updated"   -> IngressUpdateFunc(ev.old, ev.cur)
    [] k = "Ingress" /\ ev.op = "Deleted"   -> IngressDeleteFunc(ev.obj)
    [] k = "Endpoints" /\ ev.op = "Added"   -> EndpointAddFunc(ev.obj)
    [] k = "Endpoints" /\ ev.op = "Updated" -> EndpointUpdateFunc(ev.old, ev.cur)
    [] k = "Endpoints" /\ ev.op = "Deleted" -> EndpointDeleteFunc(ev.obj)
    [] k = "Service" /\ ev.op = "Added"     -> Returned(<<Notify>>)
    [] k = "Service" /\ ev.op = "Deleted"   -> Returned(<<Notify>>)
    [] k = "Secret" /\ ev.op = "Added"      -> SecretAddFunc(ev.obj)
    [] k = "Secret" /\ ev.op = "Updated"    -> SecretUpdateFunc(ev.old, ev.cur)
    [] k = "Secret" /\ ev.op = "Deleted"    -> SecretDeleteFunc(ev.obj)
    [] k = "ConfigMap" /\ ev.op = "Added"   -> ConfigMapAddFunc(ev.obj)
    [] k = "ConfigMap" /\ ev.op = "Updated" -> ConfigMapUpdateFunc(ev.old, ev.cur)
    [] k = "Pod" /\ ev.op = "Updated"       -> PodUpdateFunc(ev.old, ev.cur)
    [] k = "Pod" /\ ev.op = "Deleted"       -> PodDeleteFunc(ev.obj)
    [] OTHER                                -> Returned(<<>>)

\* cache.ResourceEventHandlerFuncs: the callback registered for the event,
\* and nothing where none is (a nil AddFunc, UpdateFunc or DeleteFunc, or a
\* kind whose informer got no AddEventHandler at all).
Handler(k, ev) ==
  CASE k = "Ingress" /\ ev.op = "Added"     -> IngressAddFunc(ev.obj)
    [] k = "Ingress" /\ ev.op = "Updated"   -> IngressUpdateFunc(ev.old, ev.cur)
    [] k = "Ingress" /\ ev.op = "Deleted"   -> IngressDeleteFunc(ev.obj)
    [] k = "Endpoints" /\ ev.op = "Added"   -> EndpointAddFunc(ev.obj)
    [] k = "Endpoints" /\ ev.op = "Updated" -> EndpointUpdateFunc(ev.old, ev.cur)
    [] k = "Endpoints" /\ ev.op = "Deleted" -> EndpointDeleteFunc(ev.obj)
    [] k = "Secret" /\ ev.op = "Added"      -> SecretAddFunc(ev.obj)
    [] k = "Secret" /\ ev.op = "Updated"    -> SecretUpdateFunc(ev.old, ev.cur)
    [] k = "Secret" /\ ev.op = "Deleted"    -> SecretDeleteFunc(ev.obj)
    [] k = "ConfigMap" /\ ev.op = "Added"   -> ConfigMapAddFunc(ev.obj)
    [] k = "ConfigMap" /\ ev.op = "Updated" -> ConfigMapUpdateFunc(ev.old, ev.cur)
    [] k = "Pod" /\ ev.op = "Updated"       -> PodUpdateFunc(ev.old, ev.cur)
    [] k = "Pod" /\ ev.op = "Deleted"       -> PodDeleteFunc(ev.obj)
    [] OTHER                                -> Returned(<<>>)

\* Whether the handler of the event gets as far as a call of
\* l.events.IsValidClass.
ReachesIsValidClass(k, ev) ==
  /\ k = "Ingress"
  /\ CASE ev.op = "Added"   -> TRUE
       [] ev.op = "Updated" -> ~DeepEqual(ev.old, ev.cur)
       [] ev.op = "Deleted" ->
            \/ ev.obj.type = "Ingress"
            \/ /\ ev.obj.type = "DeletedFinalStateUnknown"
               /\ ev.obj.Obj.type = "Ingress"
       [] OTHER             -> FALSE

\* The handler with l.events nil: its first call of a method of l.events
\* is a call on a nil interface and panics; the calls before it are made.
HandlerNilSink(k, ev) ==
  LET res == Handler(k, ev)
      onSink == {i \in 1..Len(res.calls) :
                   res.calls[i].call \in
                     {"Notify", "UpdateSecret", "DeleteSecret",
                      "AddConfigMap", "UpdateConfigMap"}}
      first == CHOOSE i \in onSink : \A j \in onSink : i <= j
  IN  IF res.panic THEN res
      ELSE IF ReachesIsValidClass(k, ev) THEN Panicked(<<>>)
      ELSE IF onSink # {} THEN Panicked(SubSeq(res.calls, 1, first - 1))
      ELSE res

(***************************************************************************)
(* State.                                                                  *)
(***************************************************************************)
VARIABLES
  clusterWatch, \* createListers: watchNamespace == api.NamespaceAll
  sinkPresent, \* createListers: the events argument is not nil
  stopped,    \* stopCh is closed
  hasSynced,  \* hasSynced[k]: the informer of kind k reports HasSynced
  runPc,      \* where RunAsync is: "ready" (not called), "first" (at the
              \* first poll), "polling", "waiting" (between two polls),
              \* "returned"
  pollIdx,    \* how many of the HasSynced functions the current poll has read
  synced,     \* what cache.WaitForCacheSync returned: "none", "true", "false"
  task,       \* task[k]: where the goroutine running informer k is
  slot,       \* slot[k]: the raw event whose handler informer k is in
  slotId,     \* slotId[k]: the number of events informer k has delivered
  delivered,  \* the number of raw events delivered so far
  trace       \* the calls made on the collaborators, in order

vars ==
  <<clusterWatch, sinkPresent, stopped, hasSynced, runPc, pollIdx, synced, task, slot, slotId,
    delivered, trace>>

\* What createListers fixes for good.
config == <<clusterWatch, sinkPresent>>

syncVars == <<config, stopped, hasSynced, runPc, pollIdx, synced>>

dispatchVars == <<slot, slotId, delivered>>

\* A call, tagged with the event it was made for: the id-th event of
\* informer k.  RunAsync's own calls are tagged (0, "RunAsync").
Tag(id, k, calls) ==
  [i \in 1..Len(calls) |-> [id |-> id, kind |-> k, call |-> calls[i]]]

\* A faulty createListers: the Node informer is taken from the cluster's
\* factory whatever the watch scope.
NodeSource_AlwaysCluster == "cluster"

\* createListers: what the Node informer is bound to.  With one namespace
\* watched it is a factory of its own over fake.NewSimpleClientset(), which
\* holds no object and never changes; otherwise the cluster's.
NodeSource == IF clusterWatch THEN "cluster" ELSE "fake"

\* After createListers, for either watch scope, with or without a sink:
\* createListers stores events as it is given and returns no error.  Nothing
\* runs yet.
Init ==
  /\ clusterWatch \in BOOLEAN
  /\ sinkPresent \in BOOLEAN
  /\ stopped = FALSE
  /\ hasSynced = [k \in Kinds |-> FALSE]
  /\ runPc = "ready"
  /\ pollIdx = 0
  /\ synced = "none"
  /\ task = [k \in Kinds |-> "unstarted"]
  /\ slot = [k \in Kinds |-> NoEvent]
  /\ slotId = [k \in Kinds |-> 0]
  /\ delivered = 0
  /\ trace = <<>>

\* RunAsync up to the call of cache.WaitForCacheSync: the seven goroutines
\* are started and the first message is logged.
RunAsyncStart ==
  /\ runPc = "ready"
  /\ runPc' = "first"
  /\ task' = [k \in Kinds |-> "idle"]
  /\ trace' = trace \o Tag(0, "RunAsync", <<LogInfo("loading object cache...")>>)
  /\ UNCHANGED <<config, stopped, hasSynced, pollIdx, synced, dispatchVars>>

\* The owner of stopCh closes it, at any time.
Stop ==
  /\ ~stopped
  /\ stopped' = TRUE
  /\ UNCHANGED <<config, hasSynced, runPc, pollIdx, synced, task,
                 dispatchVars, trace>>

\* informer.Run(stopCh): a running informer completes its initial list, and
\* HasSynced is true from then on.
InformerSynced(k) ==
  /\ task[k] \in {"idle", "handled"}
  /\ ~hasSynced[k]
  /\ hasSynced' = [hasSynced EXCEPT ![k] = TRUE]
  /\ UNCHANGED <<config, stopped, runPc, pollIdx, synced, task,
                 dispatchVars, trace>>

\* informer.Run(stopCh) returns: the goroutine, between two events, finds
\* stopCh closed.
InformerExit(k) ==
  /\ stopped
  /\ task[k] = "idle"
  /\ task' = [task EXCEPT ![k] = "exited"]
  /\ UNCHANGED <<syncVars, dispatchVars, trace>>

(***************************************************************************)
(* cache.WaitForCacheSync(stopCh, HasSynced x 7), as RunAsync calls it.    *)
(* It polls: one poll reads the HasSynced functions in the order given and *)
(* gives up at the first that is false.  The first poll is made at once;   *)
(* between two polls it waits for the next tick or for stopCh, whichever   *)
(* it sees first.                                                          *)
(***************************************************************************)
\* A faulty argument list: nodeInformer.HasSynced is left out.
CacheSyncs_NoNode == SubSeq(KindSeq, 1, 6)

\* The HasSynced functions RunAsync passes, in order.
CacheSyncs == KindSeq

AllSynced == \A k \in Kinds : hasSynced[k]

PollStart ==
  /\ runPc \in {"first", "waiting"}
  /\ runPc' = "polling"
  /\ pollIdx' = 0
  /\ UNCHANGED <<config, stopped, hasSynced, synced, task, dispatchVars,
                 trace>>

\* The poll reads the next HasSynced.  With the last one read true,
\* WaitForCacheSync returns true and RunAsync logs its success and returns.
PollRead ==
  /\ runPc = "polling"
  /\ IF pollIdx < Len(CacheSyncs) /\ ~hasSynced[CacheSyncs[pollIdx + 1]]
       THEN /\ runPc' = "waiting"
            /\ pollIdx' = 0
            /\ UNCHANGED <<synced, trace>>
       ELSE IF pollIdx + 1 < Len(CacheSyncs)
         THEN /\ pollIdx' = pollIdx + 1
              /\ UNCHANGED <<runPc, synced, trace>>
         ELSE /\ pollIdx' = 0
              /\ synced' = "true"
              /\ runPc' = "returned"
              /\ trace' = trace \o
                   Tag(0, "RunAsync", <<LogInfo("cache successfully synced")>>)
  /\ UNCHANGED <<config, stopped, hasSynced, task, dispatchVars>>

\* A faulty wait: it gives up between two polls on a timeout of its own,
\* stopCh closed or not.
PollCancelled_OnTimeout ==
  /\ runPc = "waiting"
  /\ synced' = "false"
  /\ runPc' = "returned"
  /\ trace' = trace \o
       Tag(0, "RunAsync",
           <<HandleError("initial cache sync has timed out or shutdown has requested")>>)
  /\ UNCHANGED <<config, stopped, hasSynced, pollIdx, task, dispatchVars>>

\* Between two polls WaitForCacheSync sees stopCh closed: it returns false,
\* RunAsync reports the error and returns.
PollCancelled ==
  /\ runPc = "waiting"
  /\ stopped
  /\ synced' = "false"
  /\ runPc' = "returned"
  /\ trace' = trace \o
       Tag(0, "RunAsync",
           <<HandleError("initial cache sync has timed out or shutdown has requested")>>)
  /\ UNCHANGED <<config, stopped, hasSynced, pollIdx, task, dispatchVars>>

RunAsync ==
  \/ RunAsyncStart
  \/ PollStart
  \/ PollRead
  \/ PollCancelled

Informers ==
  \E k \in Kinds :
    \/ InformerSynced(k)
    \/ InformerExit(k)

\* RunAsync and the informers' initial lists, without any raw event.
NextSync == RunAsync \/ Informers \/ Stop

SpecSync == Init /\ [][NextSync]_vars

(***************************************************************************)
(* The goroutine of one informer.  It hands one raw event at a time to the *)
(* handler registered for it and runs the handler to its end (HandleEvent),*)
(* then takes the handler's return (Return) before it reads the next       *)
(* event.  A handler that panics takes its goroutine down.                 *)
(*                                                                         *)
(* No handler reads stopCh.  Whether Run still hands over an event between *)
(* the close of stopCh and its own return (InformerExit) is client-go's    *)
(* matter; HandleEvent does not exclude it.                                *)
(***************************************************************************)
\* A faulty dispatch: the handler returns with its calls handed to another
\* task, which has not made them yet.
HandleEvent_Deferred(k, ev) ==
  /\ task[k] = "idle"
  /\ NodeSource = "fake" => k # "Node"
  /\ delivered < MaxEvents
  /\ delivered' = delivered + 1
  /\ slot' = [slot EXCEPT ![k] = ev]
  /\ slotId' = [slotId EXCEPT ![k] = @ + 1]
  /\ LET res == IF sinkPresent THEN Handler(k, ev) ELSE HandlerNilSink(k, ev)
     IN  /\ trace' = trace
         /\ task' = [task EXCEPT ![k] = IF res.panic THEN "panicked" ELSE "handled"]
  /\ UNCHANGED syncVars

\* A faulty informer: it invokes the registered handlers although its run
\* loop has not been launched.
HandleEvent_BeforeRun(k, ev) ==
  /\ task[k] \in {"unstarted", "idle"}
  /\ NodeSource = "fake" => k # "Node"
  /\ delivered < MaxEvents
  /\ delivered' = delivered + 1
  /\ slot' = [slot EXCEPT ![k] = ev]
  /\ slotId' = [slotId EXCEPT ![k] = @ + 1]
  /\ LET res == IF sinkPresent THEN Handler(k, ev) ELSE HandlerNilSink(k, ev)
     IN  /\ trace' = trace \o Tag(slotId[k] + 1, k, res.calls)
         /\ task' = [task EXCEPT ![k] = IF res.panic THEN "panicked" ELSE "handled"]
  /\ UNCHANGED syncVars

\* The run loop of informer k takes the raw event ev and runs the handler
\* registered for it, to its end.
HandleEvent(k, ev) ==
  /\ task[k] = "idle"
  /\ NodeSource = "fake" => k # "Node"
  /\ delivered < MaxEvents
  /\ delivered' = delivered + 1
  /\ slot' = [slot EXCEPT ![k] = ev]
  /\ slotId' = [slotId EXCEPT ![k] = @ + 1]
  /\ LET res == IF sinkPresent THEN Handler(k, ev) ELSE HandlerNilSink(k, ev)
     IN  /\ trace' = trace \o Tag(slotId[k] + 1, k, res.calls)
         /\ task' = [task EXCEPT ![k] = IF res.panic THEN "panicked" ELSE "handled"]
  /\ UNCHANGED syncVars

Return(k) ==
  /\ task[k] = "handled"
  /\ task' = [task EXCEPT ![k] = "idle"]
  /\ slot' = [slot EXCEPT ![k] = NoEvent]
  /\ UNCHANGED <<syncVars, slotId, delivered, trace>>

Dispatch ==
  \E k \in Kinds :
    \/ \E ev \in RawEvents(k) : HandleEvent(k, ev)
    \/ Return(k)

\* The informers at work, from the state RunAsyncStart leaves.
InitDispatch ==
  /\ clusterWatch = TRUE
  /\ sinkPresent = TRUE
  /\ stopped = FALSE
  /\ hasSynced = [k \in Kinds |-> FALSE]
  /\ runPc = "first"
  /\ pollIdx = 0
  /\ synced = "none"
  /\ task = [k \in Kinds |-> "idle"]
  /\ slot = [k \in Kinds |-> NoEvent]
  /\ slotId = [k \in Kinds |-> 0]
  /\ delivered = 0
  /\ trace = Tag(0, "RunAsync", <<LogInfo("loading object cache...")>>)

SpecDispatch == InitDispatch /\ [][Dispatch]_vars

\* createListers with any arguments, RunAsync's launch of the informers, and
\* the informers at work.
NextConfigure == RunAsyncStart \/ Dispatch

SpecConfigure == Init /\ [][NextConfigure]_vars

\* The informers at work for either watch scope, from the state
\* RunAsyncStart leaves.
InitScopes ==
  /\ clusterWatch \in BOOLEAN
  /\ sinkPresent = TRUE
  /\ stopped = FALSE
  /\ hasSynced = [k \in Kinds |-> FALSE]
  /\ runPc = "first"
  /\ pollIdx = 0
  /\ synced = "none"
  /\ task = [k \in Kinds |-> "idle"]
  /\ slot = [k \in Kinds |-> NoEvent]
  /\ slotId = [k \in Kinds |-> 0]
  /\ delivered = 0
  /\ trace = Tag(0, "RunAsync", <<LogInfo("loading object cache...")>>)

SpecScopes == InitScopes /\ [][Dispatch]_vars

(***************************************************************************)
(* RunAsync and the Node informer, for either watch scope, with no         *)
(* shutdown requested.  The cluster answers an informer's initial list     *)
(* when it does, or never; the fake clientset answers the Node informer    *)
(* bound to it as soon as that informer runs, and RunAsync keeps polling.  *)
(***************************************************************************)
InitNode ==
  /\ clusterWatch \in BOOLEAN
  /\ sinkPresent = TRUE
  /\ stopped = FALSE
  /\ hasSynced = [k \in Kinds |-> FALSE]
  /\ runPc = "ready"
  /\ pollIdx = 0
  /\ synced = "none"
  /\ task = [k \in Kinds |-> "unstarted"]
  /\ slot = [k \in Kinds |-> NoEvent]
  /\ slotId = [k \in Kinds |-> 0]
  /\ delivered = 0
  /\ trace = <<>>

FakeNodeSynced == NodeSource = "fake" /\ InformerSynced("Node")

NextNode ==
  \/ RunAsyncStart
  \/ PollStart
  \/ PollRead
  \/ \E k \in Kinds : InformerSynced(k)
  \/ \E ev \in RawEvents("Node") : HandleEvent("Node", ev)
  \/ Return("Node")

SpecNode ==
  /\ InitNode
  /\ [][NextNode]_vars
  /\ WF_vars(PollStart)
  /\ WF_vars(PollRead)
  /\ WF_vars(FakeNodeSynced)

\* The state createListers leaves, all namespaces watched and a sink given.
InitLive == InitNode /\ clusterWatch = TRUE

(***************************************************************************)
(* RunAsync under fair scheduling.  The goroutine that called RunAsync     *)
(* keeps running: a poll that can start starts, and a poll under way reads *)
(* on.  Between two polls the wait selects between the next tick and       *)
(* stopCh; with stopCh closed both are ready at every wait, and a select   *)
(* that is offered a ready case again and again takes it in the end, which *)
(* is strong fairness of PollCancelled.  Nothing is assumed of the         *)
(* cluster or of the owner of stopCh.                                      *)
(***************************************************************************)
FairSync ==
  /\ InitLive
  /\ [][NextSync]_vars
  /\ WF_vars(PollStart)
  /\ WF_vars(PollRead)
  /\ SF_vars(PollCancelled)

(***************************************************************************)
(* RunAsync, the stop channel and the Ingress informer together: the       *)
(* informer's initial list reaches its AddFunc as Added events while       *)
(* RunAsync waits for the caches.                                          *)
(***************************************************************************)
InitialList == {ev \in RawEvents("Ingress") : ev.op = "Added"}

NextLive ==
  \/ RunAsyncStart
  \/ PollStart
  \/ PollRead
  \/ PollCancelled
  \/ Stop
  \/ \E k \in Kinds : InformerSynced(k)
  \/ \E ev \in InitialList : HandleEvent("Ingress", ev)
  \/ Return("Ingress")

SpecLive == InitLive /\ [][NextLive]_vars

\* The whole program.
Next == NextSync \/ Dispatch

Spec == Init /\ [][Next]_vars

(***************************************************************************)
(* Reading the trace.                                                      *)
(***************************************************************************)
SinkOps ==
  {"Notify", "UpdateSecret", "DeleteSecret", "AddConfigMap", "UpdateConfigMap"}

\* The calls made for the id-th event of informer k, in order.
CallsFor(id, k) ==
  LET es == SelectSeq(trace, LAMBDA e : e.id = id /\ e.kind = k)
  IN  [i \in 1..Len(es) |-> es[i].call]

\* The calls made for the event whose handler informer k is in.
CallsOf(k) == CallsFor(slotId[k], k)

\* Of a sequence of calls: those on the sink, the audit records made, the
\* errors logged.
SinkCalls(out) == SelectSeq(out, LAMBDA c : c.call \in SinkOps)

Audits(out) == SelectSeq(out, LAMBDA c : c.call = "Eventf")

Reasons(out) == [i \in 1..Len(Audits(out)) |-> Audits(out)[i].reason]

Errors(out) == SelectSeq(out, LAMBDA c : c.call = "Error")

\* Informer k has run the handler of an event of the given op and the
\* handler has not returned yet.
Handled(k, op) == task[k] = "handled" /\ slot[k].op = op

\* The calls RunAsync itself has made.
RunAsyncCalls == CallsFor(0, "RunAsync")

SuccessLogged ==
  \E i \in 1..Len(RunAsyncCalls) :
    RunAsyncCalls[i] = LogInfo("cache successfully synced")

ErrorReported ==
  \E i \in 1..Len(RunAsyncCalls) : RunAsyncCalls[i].call = "HandleError"

C2_AuditBeforeNotify ==
  task["Ingress"] = "handled" =>
    LET out == CallsOf("Ingress")
    IN  \A i, j \in 1..Len(out) :
          out[i].call = "Eventf" /\ out[j].call = "Notify" => i < j

(***************************************************************************)
(* C3.  Ingress Updated follows the transition table: deeply equal old and *)
(* cur emit nothing; otherwise (invalid, invalid) emits nothing, (invalid, *)
(* valid) a CREATE audit and one Notify, (valid, invalid) a DELETE audit   *)
(* and one Notify, (valid, valid) an UPDATE audit and one Notify.          *)
(***************************************************************************)
C3_IngressUpdateTable ==
  Handled("Ingress", "Updated") =>
    LET old == slot["Ingress"].old
        cur == slot["Ingress"].cur
        out == CallsOf("Ingress")
        OneOf(reason) ==
          /\ Len(out) = 2
          /\ Reasons(out) = <<reason>>
          /\ SinkCalls(out) = <<Notify>>
    IN  IF old = cur THEN out = <<>>
        ELSE CASE ~IsValidClass(old) /\ ~IsValidClass(cur) -> out = <<>>
               [] ~IsValidClass(old) /\ IsValidClass(cur)  -> OneOf("CREATE")
               [] IsValidClass(old) /\ ~IsValidClass(cur)  -> OneOf("DELETE")
               [] IsValidClass(old) /\ IsValidClass(cur)   -> OneOf("UPDATE")

C3_Witness ==
  /\ Handled("Ingress", "Updated")
  /\ ~IsValidClass(slot["Ingress"].old)
  /\ IsValidClass(slot["Ingress"].cur)
  /\ Reasons(CallsOf("Ingress")) = <<"CREATE">>
  /\ SinkCalls(CallsOf("Ingress")) = <<Notify>>

(***************************************************************************)
(* C4.  As claimed: a Secret Added event makes no call on the sink.        *)
(***************************************************************************)
C4_SecretAddedEmitsNothing ==
  Handled("Secret", "Added") => SinkCalls(CallsOf("Secret")) = <<>>

(***************************************************************************)
(* C4, amended.  A Secret Added event calls Notify exactly once and makes  *)
(* no other call: no UpdateSecret, no DeleteSecret, no audit record.       *)
(***************************************************************************)
C4_SecretAddedNotifies ==
  Handled("Secret", "Added") => CallsOf("Secret") = <<Notify>>

C4_Witness ==
  /\ Handled("Secret", "Added")
  /\ SinkCalls(CallsOf("Secret")) = <<Notify>>

(***************************************************************************)
(* C5.  Pod Updated calls Notify exactly once if and only if the deletion  *)
(* timestamp VALUE of old differs from that of cur (absent on both sides,  *)
(* or present with the same time, emits nothing, whatever the labels and   *)
(* whether or not old and cur are distinct snapshots); Pod Deleted always  *)
(* calls Notify exactly once; Pod Added emits nothing.                     *)
(***************************************************************************)
DeletionTime(pod) ==
  IF pod.DeletionTimestamp = NilPtr THEN "absent"
  ELSE TimeAt(pod.DeletionTimestamp)

C5_PodTable ==
  /\ Handled("Pod", "Updated") =>
       CallsOf("Pod") =
         IF DeletionTime(slot["Pod"].old) # DeletionTime(slot["Pod"].cur)
           THEN <<Notify>> ELSE <<>>
  /\ Handled("Pod", "Deleted") => CallsOf("Pod") = <<Notify>>
  /\ Handled("Pod", "Added") => CallsOf("Pod") = <<>>

(***************************************************************************)
(* C6.  Secret Updated emits nothing when old and cur are deeply equal,    *)
(* and otherwise exactly one UpdateSecret whose key is namespace/name of   *)
(* cur, not of old.                                                        *)
(***************************************************************************)
C6_SecretUpdated ==
  Handled("Secret", "Updated") =>
    LET old == slot["Secret"].old
        cur == slot["Secret"].cur
    IN  CallsOf("Secret") =
          IF old = cur THEN <<>>
          ELSE <<[call |-> "UpdateSecret",
                  key |-> cur.Namespace \o "/" \o cur.Name]>>

C6_Witness ==
  /\ Handled("Secret", "Updated")
  /\ slot["Secret"].old.Name = "a"
  /\ slot["Secret"].cur.Name = "b"
  /\ CallsOf("Secret") = <<[call |-> "UpdateSecret", key |-> "n2/b"]>>

(***************************************************************************)
(* C7.  Endpoints Updated calls Notify exactly once when the subsets of    *)
(* old and cur differ and emits nothing when they are equal; Endpoints     *)
(* Added and Endpoints Deleted each call Notify exactly once.              *)
(***************************************************************************)
C7_EndpointsTable ==
  /\ Handled("Endpoints", "Updated") =>
       CallsOf("Endpoints") =
         IF slot["Endpoints"].old.Subsets # slot["Endpoints"].cur.Subsets
           THEN <<Notify>> ELSE <<>>
  /\ Handled("Endpoints", "Added") => CallsOf("Endpoints") = <<Notify>>
  /\ Handled("Endpoints", "Deleted") => CallsOf("Endpoints") = <<Notify>>

C7_Witness ==
  /\ Handled("Endpoints", "Updated")
  /\ slot["Endpoints"].old.Subsets = slot["Endpoints"].cur.Subsets
  /\ slot["Endpoints"].old.Labels # slot["Endpoints"].cur.Labels
  /\ CallsOf("Endpoints") = <<>>

(***************************************************************************)
(* C8.  Ingress Deleted with a tombstone: if it wraps an Ingress, that     *)
(* Ingress is recovered and, when IsValidClass holds for it, exactly one   *)
(* DELETE audit (of that Ingress) and one Notify are emitted, and nothing  *)
(* when it is not valid; if it wraps an object of another kind, no sink    *)
(* call and no audit record is made and exactly one error is logged.       *)
(***************************************************************************)
C8_IngressTombstone ==
  (Handled("Ingress", "Deleted")
     /\ slot["Ingress"].obj.type = "DeletedFinalStateUnknown") =>
    LET inner == slot["Ingress"].obj.Obj
        out == CallsOf("Ingress")
    IN  IF inner.type = "Ingress"
          THEN IF IsValidClass(inner)
                 THEN /\ Len(out) = 2
                      /\ Reasons(out) = <<"DELETE">>
                      /\ Audits(out)[1].message =
                           "Ingress " \o inner.Namespace \o "/" \o inner.Name
                      /\ SinkCalls(out) = <<Notify>>
                 ELSE out = <<>>
          ELSE /\ SinkCalls(out) = <<>>
               /\ Audits(out) = <<>>
               /\ Len(Errors(out)) = 1
               /\ Len(out) = 1

C8_Witness ==
  /\ Handled("Ingress", "Deleted")
  /\ slot["Ingress"].obj.type = "DeletedFinalStateUnknown"
  /\ slot["Ingress"].obj.Obj.type = "Ingress"
  /\ slot["Ingress"].obj.Obj.Name = "b"
  /\ Len(Audits(CallsOf("Ingress"))) = 1
  /\ Audits(CallsOf("Ingress"))[1].message = "Ingress n1/b"

(***************************************************************************)
(* C9.  An identity-recovery failure is contained to its event.  For a     *)
(* Deleted event of the Ingress or Secret informer whose payload is        *)
(* neither the expected kind nor a tombstone wrapping it: no informer's    *)
(* loop is ever aborted, the event makes no sink call and no audit record, *)
(* and every event, also one that follows a malformed one, makes exactly   *)
(* the calls its handler makes for that event alone.                       *)
(***************************************************************************)
Malformed(k, ev) ==
  /\ k \in {"Ingress", "Secret"}
  /\ ev.op = "Deleted"
  /\ ev.obj.type # k
  /\ ~(ev.obj.type = "DeletedFinalStateUnknown" /\ ev.obj.Obj.type = k)

C9_RecoveryFailureContained ==
  \A k \in Kinds :
    /\ task[k] # "panicked"
    /\ task[k] = "handled" =>
         /\ CallsOf(k) = Handler(k, slot[k]).calls
         /\ Malformed(k, slot[k]) =>
              /\ SinkCalls(CallsOf(k)) = <<>>
              /\ Audits(CallsOf(k)) = <<>>

\* The Secret informer's first event was malformed (an error is logged for
\* it and nothing else) and its second event has made its DeleteSecret.
C9_Witness ==
  /\ Handled("Secret", "Deleted")
  /\ slotId["Secret"] = 2
  /\ Len(Errors(CallsFor(1, "Secret"))) = 1
  /\ SinkCalls(CallsFor(1, "Secret")) = <<>>
  /\ CallsOf("Secret") = <<[call |-> "DeleteSecret", key |-> "n2/b"]>>

(***************************************************************************)
(* C11.  createListers fails when the sink (events) is absent, and then no *)
(* watch is bound and no handler is ever invoked against the absent sink:  *)
(* in particular no handler ever calls a method of a nil l.events.         *)
(***************************************************************************)
C11_NoHandlerOnAbsentSink ==
  ~sinkPresent =>
    \A k \in Kinds : task[k] # "panicked"

(***************************************************************************)
(* C12.  ConfigMap Added always makes exactly one AddConfigMap call        *)
(* carrying the added object; Updated makes exactly one UpdateConfigMap    *)
(* call carrying cur if and only if old and cur are not deeply equal;      *)
(* Deleted makes no call.                                                  *)
(***************************************************************************)
C12_ConfigMapTable ==
  /\ Handled("ConfigMap", "Added") =>
       CallsOf("ConfigMap") =
         <<[call |-> "AddConfigMap", cm |-> slot["ConfigMap"].obj]>>
  /\ Handled("ConfigMap", "Updated") =>
       CallsOf("ConfigMap") =
         IF slot["ConfigMap"].old = slot["ConfigMap"].cur THEN <<>>
         ELSE <<[call |-> "UpdateConfigMap", cm |-> slot["ConfigMap"].cur]>>
  /\ Handled("ConfigMap", "Deleted") => CallsOf("ConfigMap") = <<>>

C12_Witness ==
  /\ Handled("ConfigMap", "Updated")
  /\ slot["ConfigMap"].old.Data = "d1"
  /\ slot["ConfigMap"].cur.Data = "d2"
  /\ Len(CallsOf("ConfigMap")) = 1
  /\ CallsOf("ConfigMap")[1].cm.Data = "d2"

(***************************************************************************)
(* C13.  After any sequence of Added, Updated and Deleted events of the    *)
(* Node and Service informers, for either watch scope, no call on the sink *)
(* and no audit record (no call at all) has been made on their account.    *)
(***************************************************************************)
C13_NodeServiceSilent ==
  \A i \in 1..Len(trace) : trace[i].kind \notin {"Node", "Service"}

\* With one namespace watched, the Service informer has handled two events.
C13_Witness ==
  /\ ~clusterWatch
  /\ Handled("Service", "Deleted")
  /\ slotId["Service"] = 2
  /\ Len(trace) = 1

(***************************************************************************)
(* C14.  With exactly one namespace watched the Node informer is bound to  *)
(* an empty static source: it never has an event (its listed set stays     *)
(* empty), it becomes synced once it runs whether or not the cluster       *)
(* answers, and the barrier then depends on the other six informers only:  *)
(* once they are synced RunAsync gets its success.  With all namespaces    *)
(* watched the Node informer is bound to the cluster's feed and takes the  *)
(* cluster's Node events.                                                  *)
(***************************************************************************)
OthersSynced == \A k \in Kinds \ {"Node"} : hasSynced[k]

C14_NodeSource ==
  /\ [](~clusterWatch => (slotId["Node"] = 0 /\ slot["Node"] = NoEvent))
  /\ [](clusterWatch /\ task["Node"] = "idle" /\ delivered < MaxEvents
          => ENABLED (\E ev \in RawEvents("Node") : HandleEvent("Node", ev)))
  /\ (~clusterWatch /\ runPc # "ready") ~> hasSynced["Node"]
  /\ (~clusterWatch /\ runPc # "ready" /\ OthersSynced) ~> (synced = "true")

\* One namespace watched: the Node informer is synced while no other
\* informer is, and it has had no event.
C14_Witness ==
  /\ ~clusterWatch
  /\ hasSynced["Node"]
  /\ \A k \in Kinds \ {"Node"} : ~hasSynced[k]
  /\ slotId["Node"] = 0

(***************************************************************************)
(* C15.  As stated: between the launch of the informers' run loops and the *)
(* resolution of the barrier in RunAsync no raw event is handled and no    *)
(* call reaches the sink.                                                  *)
(***************************************************************************)
BarrierPending == runPc # "ready" /\ synced = "none"

C15_NoDispatchBeforeBarrier ==
  BarrierPending =>
    /\ \A k \in Kinds : slotId[k] = 0
    /\ \A i \in 1..Len(trace) : trace[i].call.call \notin SinkOps

(***************************************************************************)
(* C15, amended.  No raw event is handled before RunAsync launches the     *)
(* run loops; from the launch on a running informer takes events whether   *)
(* or not the barrier has resolved; and RunAsync has returned exactly when *)
(* the barrier has resolved.                                               *)
(***************************************************************************)
C15_LiveFromLaunch ==
  /\ runPc = "ready" => (trace = <<>> /\ \A k \in Kinds : slotId[k] = 0)
  /\ (task["Ingress"] = "idle" /\ delivered < MaxEvents)
       => ENABLED (\E ev \in InitialList : HandleEvent("Ingress", ev))
  /\ runPc = "returned" <=> synced # "none"

\* The barrier is pending and the sink has had a Notify of an added Ingress.
C15_Witness ==
  /\ BarrierPending
  /\ \E i \in 1..Len(trace) :
       trace[i].kind = "Ingress" /\ trace[i].call = Notify

(***************************************************************************)
(* C16.  For every raw event of every kind the handler makes at most one   *)
(* signalling call on the sink (Notify, UpdateSecret, DeleteSecret,        *)
(* AddConfigMap or UpdateConfigMap) and records at most one audit event.   *)
(***************************************************************************)
C16_AtMostOneSignal ==
  \A k \in Kinds :
    \A id \in 1..slotId[k] :
      /\ Len(SinkCalls(CallsFor(id, k))) <= 1
      /\ Len(Audits(CallsFor(id, k))) <= 1

\* Two events have been handled, each with one signal and one audit.
C16_Witness ==
  /\ slotId["Ingress"] = 2
  /\ \A id \in 1..2 :
       /\ Len(SinkCalls(CallsFor(id, "Ingress"))) = 1
       /\ Len(Audits(CallsFor(id, "Ingress"))) = 1

(***************************************************************************)
(* C17.  An Ingress Added event makes exactly one Notify call and exactly  *)
(* one CREATE audit record when IsValidClass holds for the added Ingress,  *)
(* and makes no call at all when it does not.                              *)
(***************************************************************************)
C17_IngressAdded ==
  Handled("Ingress", "Added") =>
    LET ing == slot["Ingress"].obj
        out == CallsOf("Ingress")
    IN  IF IsValidClass(ing)
          THEN /\ SinkCalls(out) = <<Notify>>
               /\ Reasons(out) = <<"CREATE">>
               /\ Len(out) = 2
          ELSE out = <<>>

C17_Witness ==
  /\ Handled("Ingress", "Added")
  /\ IsValidClass(slot["Ingress"].obj)
  /\ Len(SinkCalls(CallsOf("Ingress"))) = 1
  /\ Len(Audits(CallsOf("Ingress"))) = 1

(***************************************************************************)
(* C18.  A Secret Deleted event makes exactly one DeleteSecret call whose  *)
(* key is namespace/name of the deleted Secret, whatever the Secret, both  *)
(* when the payload is the Secret and when it is a tombstone holding a     *)
(* Secret; when the tombstone holds another kind or the payload is neither *)
(* a Secret nor a tombstone, it makes no sink call and logs one error.     *)
(***************************************************************************)
C18_SecretDeleted ==
  Handled("Secret", "Deleted") =>
    LET p == slot["Secret"].obj
        out == CallsOf("Secret")
        direct == p.type = "Secret"
        wrapped == p.type = "DeletedFinalStateUnknown" /\ p.Obj.type = "Secret"
        sec == IF direct THEN p ELSE p.Obj
    IN  IF direct \/ wrapped
          THEN out = <<[call |-> "DeleteSecret",
                        key |-> sec.Namespace \o "/" \o sec.Name]>>
          ELSE /\ SinkCalls(out) = <<>>
               /\ Len(Errors(out)) = 1
               /\ Len(out) = 1

\* A tombstone holding a Secret has been handled with one DeleteSecret.
C18_Witness ==
  /\ Handled("Secret", "Deleted")
  /\ slot["Secret"].obj.type = "DeletedFinalStateUnknown"
  /\ slot["Secret"].obj.Obj.type = "Secret"
  /\ Len(SinkCalls(CallsOf("Secret"))) = 1

(***************************************************************************)
(* C20.  Dispatch per informer is sequential: a handler has made all its   *)
(* calls when it is about to return, and the calls of one kind reach the   *)
(* sink in the order of that kind's raw events.  Across kinds nothing      *)
(* orders them: an idle informer takes its next event whatever the other   *)
(* six are doing, so handlers of different kinds are in progress together. *)
(***************************************************************************)
C20_SequentialPerKind ==
  /\ \A k \in Kinds :
       task[k] = "handled" => CallsOf(k) = Handler(k, slot[k]).calls
  /\ \A i \in 1..Len(trace) : \A j \in i..Len(trace) :
       trace[i].kind = trace[j].kind => trace[i].id <= trace[j].id
  /\ \A k \in Kinds :
       (task[k] = "idle" /\ delivered < MaxEvents)
         => ENABLED (\E ev \in RawEvents(k) : HandleEvent(k, ev))

\* Handlers of two kinds are in progress together, both with their signal
\* at the sink.
C20_Witness ==
  /\ task["Ingress"] = "handled"
  /\ task["Secret"] = "handled"
  /\ Len(SinkCalls(CallsOf("Ingress"))) = 1
  /\ Len(SinkCalls(CallsOf("Secret"))) = 1

(***************************************************************************)
(* C19.  RunAsync terminates.  Once it has been called, if all seven       *)
(* informers are synced or stopCh is closed, it returns in the end; it has *)
(* returned only in a state where all seven are synced or stopCh is        *)
(* closed; and it returns to its caller in both outcomes: as cancelled it  *)
(* has reported the error through HandleError and returned, as synced it   *)
(* has logged its success and returned.                                    *)
(***************************************************************************)
C19_RunAsyncTerminates ==
  /\ [](runPc = "returned" => (AllSynced \/ stopped))
  /\ [](synced = "false" => (runPc = "returned" /\ ErrorReported))
  /\ [](synced = "true" => (runPc = "returned" /\ SuccessLogged))
  /\ (runPc # "ready" /\ (AllSynced \/ stopped)) ~> (runPc = "returned")

\* RunAsync has returned as cancelled, stopCh closed and no informer synced.
C19_Witness ==
  /\ runPc = "returned"
  /\ synced = "false"
  /\ stopped
  /\ \A k \in Kinds : ~hasSynced[k]

====
